---- MODULE Spec2Model ----
(***************************************************************************)
(* Request-resilience layer of akamai-reports:                             *)
(*   tools/lib/resilience/circuit_breaker.py  CircuitBreaker               *)
(*   tools/lib/api_client.py                  _make_api_request_with_retry *)
(*                                            and its status handlers,     *)
(*                                            call_traffic_api (no cache)  *)
(*   tools/lib/tracing                        correlation id / context     *)
(*                                                                         *)
(* One logical call is  breaker.call(_make_api_request_with_retry, ...).   *)
(* The lock-protected blocks of the breaker are single steps; the wrapped  *)
(* operation runs between them, one loop iteration per step.               *)
(***************************************************************************)
EXTENDS Integers, Sequences, FiniteSets, TLC

\* ---------------------------------------------------------------- bounds
MaxFailureThreshold == 3
MaxSuccessThreshold == 2
MaxRecoveryTimeout == 1
MaxRetries == 3
MaxTime == 3
\* largest max_retries in the breaker-centred specification
BreakerMaxRetries == 1
\* largest cap (max_delay, in seconds) a backoff delay is compared with
MaxCap == 2
\* largest max_workers of a ConcurrentAPIClient
MaxWorkers == 2
\* longest item list handed to execute_batch
MaxItems == 2
\* most calls of shutdown() / __exit__ on one client
MaxShutdowns == 2
\* largest cache TTL, in clock ticks
MaxTTL == 2
\* largest failure_threshold of the breaker shared by two threads
MaxConcurrentFailureThreshold == 2
\* most cached_call invocations in one behaviour
MaxCalls == 3

\* ------------------------------------------------------ program constants
\* config_loader.get_exponential_backoff_base() default
DefaultBackoffBase == 2
\* config_loader.get_network_error_delay() default (seconds)
DefaultNetworkErrorDelay == 1
\* _traffic_circuit_breaker / _emissions_circuit_breaker
TrafficFailureThreshold == 3
TrafficSuccessThreshold == 2

\* ------------------------------------------------------------ vocabulary
Threads == {"t1", "t2"}
SeqThreads == {"t1"}

\* last_failure_time = None
NoTime == -1

\* payloads a 200 response can carry; "bad" does not satisfy the response
\* schema (TrafficAPIResponse / EmissionsAPIResponse)
GoodBodies == {"p1", "p2"}
BadBodies == {"bad"}
Bodies == GoodBodies \cup BadBodies

\* one HTTP attempt ends with a response (status, body) or an exception of
\* requests.post: Timeout, or another RequestException
Statuses == {200, 201, 400, 401, 403, 404, 429, 500, 503}
Responses ==
    [kind : {"response"}, status : {200}, body : Bodies]
      \cup [kind : {"response"}, status : {400}, body : {"p1", "bad"}]
      \cup [kind : {"response"}, status : Statuses \ {200, 400}, body : {"-"}]
Exceptions ==
    [kind : {"Timeout", "RequestException"}, status : {0}, body : {"-"}]
Outcomes == Responses \cup Exceptions

VARIABLES
    \* CircuitBreaker fields
    state, failure_count, success_count, last_failure_time,
    failure_threshold, success_threshold, recovery_timeout,
    \* configuration (ConfigLoader) and environment
    max_retries, schema_validation,
    \* wall clock (datetime.now()), in seconds
    now,
    \* per caller: position, loop index, per-call bookkeeping
    pc, attempt, invoked, http_attempts, outcomes, sleeps, result,
    \* per caller: the breaker state its last call was admitted in
    admitted_in,
    \* per caller: the local error_ctx of _make_api_request_with_retry
    error_ctx,
    \* tracing context variables (contextvars, one value per caller)
    correlation_id, current_context, next_id,
    \* ConcurrentAPIClient fields: pool size, executor and session status
    max_workers, executor_shutdown, session_closed,
    \* main thread of the client: shutdown()/__exit__ calls made so far,
    \* position inside shutdown(), position inside execute_batch()
    shutdown_log, spc, bpc,
    \* execute_batch locals: items, the futures list, the results dict, the
    \* number of futures already collected, exception of the last call
    items, futures, results, collected, client_error,
    \* ResponseCache: ttl, the files of cache_dir by key
    ttl, cache_files,
    \* cached_call bookkeeping: calls made, invocations of fn, key and
    \* outcome of the last call
    cache_calls, fn_calls, last_key, last_result,
    \* the last operation on the cache, the most recent set() per key
    last_op, set_log,
    \* _get_cache_key applied to two calls: the calls, the outcomes
    key_calls, key_out,
    \* ServiceContainer fields (loaded or None), the owner of its lock, and
    \* per thread the stack of container code it is executing
    c_config_loader, c_auth, c_initialized, c_lock, cstack

breaker == <<state, failure_count, success_count, last_failure_time>>
params == <<failure_threshold, success_threshold, recovery_timeout,
            max_retries, schema_validation>>
tracing == <<correlation_id, current_context, next_id>>
locals == <<pc, attempt, invoked, http_attempts, outcomes, sleeps, result,
            admitted_in, error_ctx>>
resilience == <<breaker, params, now, locals, tracing>>
batchvars == <<max_workers, executor_shutdown, session_closed, shutdown_log,
               spc, bpc, items, futures, results, collected, client_error>>
cachevars == <<ttl, cache_files, cache_calls, fn_calls, last_key, last_result,
               last_op, set_log>>
keyvars == <<key_calls, key_out>>
containervars == <<c_config_loader, c_auth, c_initialized, c_lock, cstack>>
vars == <<resilience, batchvars, cachevars, keyvars, containervars>>

\* what the actions of one component leave alone
outside_resilience == <<batchvars, cachevars, keyvars, containervars>>
outside_batch == <<resilience, cachevars, keyvars, containervars>>
outside_cache == <<resilience, batchvars, keyvars, containervars>>
outside_keys == <<resilience, batchvars, cachevars, containervars>>
outside_container == <<resilience, batchvars, cachevars, keyvars>>

\* ------------------------------------------------------------- results
NoResult == [kind |-> "none", error |-> "-", status |-> 0, value |-> "-"]
Returned(v) == [kind |-> "value", error |-> "-", status |-> 0, value |-> v]
Raised(e, s, v) == [kind |-> "error", error |-> e, status |-> s, value |-> v]
NoContext == [correlation_id |-> 0, attempt |-> -1]

\* ---------------------------------------------------------- ErrorContext
\* no ErrorContext bound to error_ctx
NoErrorContext ==
    [error_type |-> "-", correlation_id |-> 0,
     request_context |-> [correlation_id |-> 0, metadata |-> "-"],
     additional_attempt |-> 0]

\* RequestContext.to_dict of the live context of caller t: the
\* correlation id is an immutable string, "metadata" is self.metadata
\* itself, the dict object, named here by the caller whose context owns it
to_dict(t) ==
    [correlation_id |-> current_context[t].correlation_id, metadata |-> t]

\* ErrorContext.from_exception(e, {"attempt": attempt + 1, ...}) in the
\* except blocks of caller t, after metadata["attempt"] was updated
from_exception(t, e, att) ==
    [error_type |-> e,
     correlation_id |-> correlation_id[t],
     request_context |-> to_dict(t),
     additional_attempt |-> att + 1]

\* error_ctx.request_context["metadata"]["attempt"] as read now: the
\* entry of the dict object the snapshot refers to
snapshot_attempt(ec) == current_context[ec.request_context.metadata].attempt

TypedErrors ==
    {"APIRequestError", "APIAuthenticationError", "APIAuthorizationError",
     "APIRateLimitError", "APIServerError", "APITimeoutError",
     "APINetworkError"}

RECURSIVE Pow(_, _)
Pow(b, e) == IF e = 0 THEN 1 ELSE b * Pow(b, e - 1)

\* ------------------------------------------------- circuit breaker helpers
\* (variant: cooldown test with >= instead of >)
should_attempt_reset_inclusive ==
    IF last_failure_time = NoTime THEN TRUE
    ELSE (now - last_failure_time) >= recovery_timeout

\* (variant: the cooldown ends one second late)
should_attempt_reset_one_late ==
    IF last_failure_time = NoTime THEN TRUE
    ELSE (now - last_failure_time) > recovery_timeout + 1

should_attempt_reset ==
    IF last_failure_time = NoTime THEN TRUE
    ELSE (now - last_failure_time) > recovery_timeout

Max0(x) == IF x > 0 THEN x ELSE 0

\* (variant: the remaining time is not floored at zero)
time_until_retry_unfloored ==
    IF last_failure_time = NoTime THEN 0
    ELSE recovery_timeout - (now - last_failure_time)

time_until_retry ==
    IF last_failure_time = NoTime THEN 0
    ELSE Max0(recovery_timeout - (now - last_failure_time))

\* CircuitBreaker.get_state: the fields that vary
get_state ==
    [state |-> state,
     failure_count |-> failure_count,
     success_count |-> success_count,
     time_until_retry |-> IF state = "OPEN" THEN time_until_retry ELSE 0,
     last_failure_time |-> last_failure_time]

Breaker(st, fc, sc) == [state |-> st, failure_count |-> fc, success_count |-> sc]

\* (variant: the HALF_OPEN branch is missing, only the threshold reopens)
on_failure_update_threshold_only(st, fc, sc, ft) ==
    IF fc + 1 >= ft THEN Breaker("OPEN", fc + 1, 0)
    ELSE Breaker(st, fc + 1, sc)

\* (variant: the failure is counted twice)
on_failure_update_twice(st, fc, sc, ft) ==
    IF st = "HALF_OPEN" THEN Breaker("OPEN", fc + 2, 0)
    ELSE IF fc + 2 >= ft THEN Breaker("OPEN", fc + 2, 0)
    ELSE Breaker(st, fc + 2, sc)

\* (variant: reopening from HALF_OPEN keeps success_count)
on_failure_update_keeps_success_count(st, fc, sc, ft) ==
    IF st = "HALF_OPEN" THEN Breaker("OPEN", fc + 1, sc)
    ELSE IF fc + 1 >= ft THEN Breaker("OPEN", fc + 1, 0)
    ELSE Breaker(st, fc + 1, sc)

\* (variant: failure_count stops counting at failure_threshold)
on_failure_update_saturating(st, fc, sc, ft) ==
    IF st = "HALF_OPEN" THEN Breaker("OPEN", IF fc + 1 > ft THEN ft ELSE fc + 1, 0)
    ELSE IF fc + 1 >= ft THEN Breaker("OPEN", ft, 0)
    ELSE Breaker(st, fc + 1, sc)

\* body of _on_failure: the new (state, failure_count, success_count)
on_failure_update(st, fc, sc, ft) ==
    IF st = "HALF_OPEN" THEN Breaker("OPEN", fc + 1, 0)
    ELSE IF fc + 1 >= ft THEN Breaker("OPEN", fc + 1, 0)
    ELSE Breaker(st, fc + 1, sc)

\* (variant: closes one success late, > instead of >=)
on_success_update_late(st, fc, sc, sth) ==
    IF st = "HALF_OPEN"
    THEN IF sc + 1 > sth THEN Breaker("CLOSED", 0, 0)
         ELSE Breaker(st, 0, sc + 1)
    ELSE Breaker(st, 0, sc)

\* (variant: a success outside HALF_OPEN leaves failure_count alone)
on_success_update_keeps_failures(st, fc, sc, sth) ==
    IF st = "HALF_OPEN"
    THEN IF sc + 1 >= sth THEN Breaker("CLOSED", 0, 0)
         ELSE Breaker(st, 0, sc + 1)
    ELSE Breaker(st, fc, sc)

\* (variant: closing from HALF_OPEN keeps the success just counted)
on_success_update_keeps_count_on_close(st, fc, sc, sth) ==
    IF st = "HALF_OPEN"
    THEN IF sc + 1 >= sth THEN Breaker("CLOSED", 0, sc + 1)
         ELSE Breaker(st, 0, sc + 1)
    ELSE Breaker(st, 0, sc)

\* body of _on_success: the new (state, failure_count, success_count)
on_success_update(st, fc, sc, sth) ==
    IF st = "HALF_OPEN"
    THEN IF sc + 1 >= sth THEN Breaker("CLOSED", 0, 0)
         ELSE Breaker(st, 0, sc + 1)
    ELSE Breaker(st, 0, sc)

\* (variant: an exception of the operation is swallowed, None is returned)
call_outcome_swallow(r) ==
    IF r.kind = "error" THEN [kind |-> "value", error |-> "-", status |-> 0, value |-> "None"]
    ELSE r

\* what call() hands to its caller once the operation finished:
\* "return result" / bare "raise"
call_outcome(r) == r

\* (variant: self._lock stays held while the wrapped operation runs)
holds_lock_while_running(t) == pc[t] = "running"

\* caller t holds self._lock between two steps: never, every "with
\* self._lock" block is one step and the block of call() ends before func
\* is called
holds_lock(t) == FALSE

\* "with self._lock" can be entered
lock_free == \A u \in Threads : ~holds_lock(u)

\* (variant: every request gets a new correlation id)
ensure_correlation_id_always_new(cur, fresh) == fresh

\* "if not get_correlation_id(): set_correlation_id(generate_...())": the
\* id active after it, given the current one (0 for None) and a fresh one
ensure_correlation_id(cur, fresh) == IF cur = 0 THEN fresh ELSE cur

\* ----------------------------------------------------- retry-loop helpers
\* each helper yields what the loop iteration does next:
\*   act = "return" (value), "raise" (error, status, value) or "retry"
\*   sleep = the time.sleep() calls made, in order
Eff(a, e, s, v, sl) == [act |-> a, error |-> e, status |-> s, value |-> v, sleep |-> sl]

handle_success_response(resp, validate) ==
    IF validate /\ resp.body \in BadBodies
    THEN Eff("raise", "APIRequestError", 422, "schema", <<>>)
    ELSE Eff("return", "-", 0, resp.body, <<>>)

\* (variant: the exponent is the one-based attempt number)
handle_rate_limit_one_based(att, maxr, base) ==
    IF att < maxr - 1
    THEN Eff("retry", "-", 0, "-", <<Pow(base, att + 1)>>)
    ELSE Eff("raise", "APIRateLimitError", 0, "-", <<>>)

handle_rate_limit(att, maxr, base) ==
    IF att < maxr - 1
    THEN Eff("retry", "-", 0, "-", <<Pow(base, att)>>)
    ELSE Eff("raise", "APIRateLimitError", 0, "-", <<>>)

handle_server_error(status, att, maxr, base) ==
    IF att < maxr - 1
    THEN Eff("retry", "-", 0, "-", <<Pow(base, att)>>)
    ELSE Eff("raise", "APIServerError", status, "-", <<>>)

handle_timeout_retry(att, maxr) ==
    IF att >= maxr - 1
    THEN Eff("raise", "APITimeoutError", 0, "-", <<>>)
    ELSE Eff("retry", "-", 0, "-", <<>>)

\* (variant: an exhausted transport error is reported as a timeout)
handle_network_retry_as_timeout(att, maxr, delay) ==
    IF att < maxr - 1
    THEN Eff("retry", "-", 0, "-", <<delay>>)
    ELSE Eff("raise", "APITimeoutError", 0, "-", <<>>)

handle_network_retry(att, maxr, delay) ==
    IF att < maxr - 1
    THEN Eff("retry", "-", 0, "-", <<delay>>)
    ELSE Eff("raise", "APINetworkError", 0, "-", <<>>)

\* (variant: every 2xx status is taken as success)
handle_response_status_any_2xx(resp, att, maxr, base, validate) ==
    IF resp.status >= 200 /\ resp.status < 300 THEN handle_success_response(resp, validate)
    ELSE IF resp.status = 400 THEN Eff("raise", "APIRequestError", 400, resp.body, <<>>)
    ELSE IF resp.status = 401 THEN Eff("raise", "APIAuthenticationError", 0, "-", <<>>)
    ELSE IF resp.status = 403 THEN Eff("raise", "APIAuthorizationError", 0, "-", <<>>)
    ELSE IF resp.status = 429 THEN handle_rate_limit(att, maxr, base)
    ELSE IF resp.status >= 500 THEN handle_server_error(resp.status, att, maxr, base)
    ELSE Eff("raise", "APIRequestError", resp.status, "unexpected", <<>>)

\* (variant: 403 is handled like 429, it backs off and retries)
handle_response_status_retry_403(resp, att, maxr, base, validate) ==
    IF resp.status = 200 THEN handle_success_response(resp, validate)
    ELSE IF resp.status = 400 THEN Eff("raise", "APIRequestError", 400, resp.body, <<>>)
    ELSE IF resp.status = 401 THEN Eff("raise", "APIAuthenticationError", 0, "-", <<>>)
    ELSE IF resp.status = 403 \/ resp.status = 429 THEN handle_rate_limit(att, maxr, base)
    ELSE IF resp.status >= 500 THEN handle_server_error(resp.status, att, maxr, base)
    ELSE Eff("raise", "APIRequestError", resp.status, "unexpected", <<>>)

handle_response_status(resp, att, maxr, base, validate) ==
    IF resp.status = 200 THEN handle_success_response(resp, validate)
    ELSE IF resp.status = 400 THEN Eff("raise", "APIRequestError", 400, resp.body, <<>>)
    ELSE IF resp.status = 401 THEN Eff("raise", "APIAuthenticationError", 0, "-", <<>>)
    ELSE IF resp.status = 403 THEN Eff("raise", "APIAuthorizationError", 0, "-", <<>>)
    ELSE IF resp.status = 429 THEN handle_rate_limit(att, maxr, base)
    ELSE IF resp.status >= 500 THEN handle_server_error(resp.status, att, maxr, base)
    ELSE Eff("raise", "APIRequestError", resp.status, "unexpected", <<>>)

\* the delays time.sleep() can be given in _handle_rate_limit /
\* _handle_server_error for a retry at zero-based attempt att
backoff_delays(att, base) ==
    {d \in 0..Pow(base, att) :
        \/ handle_rate_limit(att, att + 2, base).sleep = <<d>>
        \/ handle_server_error(500, att, att + 2, base).sleep = <<d>>}

\* one iteration of the for loop, after requests.post produced outcome o
loop_iteration(o, att, maxr, base, delay, validate) ==
    IF o.kind = "Timeout" THEN handle_timeout_retry(att, maxr)
    ELSE IF o.kind = "RequestException" THEN handle_network_retry(att, maxr, delay)
    ELSE handle_response_status(o, att, maxr, base, validate)

\* (variant: a rejected call is recorded like a failure: it is counted and
\* restarts the cooldown)
call_rejection_recorded(t) ==
    /\ lock_free
    /\ pc[t] = "idle"
    /\ IF state = "OPEN" /\ ~should_attempt_reset
       THEN /\ result' = [result EXCEPT ![t] = Raised("CircuitBreakerOpenError", time_until_retry, "-")]
            /\ invoked' = [invoked EXCEPT ![t] = 0]
            /\ http_attempts' = [http_attempts EXCEPT ![t] = 0]
            /\ failure_count' = failure_count + 1
            /\ last_failure_time' = now
            /\ UNCHANGED <<state, pc, attempt, outcomes, sleeps, admitted_in,
                           error_ctx, tracing>>
       ELSE /\ state' = IF state = "OPEN" THEN "HALF_OPEN" ELSE state
            /\ error_ctx' = [error_ctx EXCEPT ![t] = NoErrorContext]
            /\ pc' = [pc EXCEPT ![t] = "running"]
            /\ invoked' = [invoked EXCEPT ![t] = 1]
            /\ attempt' = [attempt EXCEPT ![t] = 0]
            /\ http_attempts' = [http_attempts EXCEPT ![t] = 0]
            /\ outcomes' = [outcomes EXCEPT ![t] = <<>>]
            /\ sleeps' = [sleeps EXCEPT ![t] = <<>>]
            /\ result' = [result EXCEPT ![t] = NoResult]
            /\ admitted_in' = [admitted_in EXCEPT ![t] =
                                  IF state = "OPEN" THEN "HALF_OPEN" ELSE state]
            /\ LET cid == ensure_correlation_id(correlation_id[t], next_id)
               IN /\ correlation_id' = [correlation_id EXCEPT ![t] = cid]
                  /\ next_id' = IF correlation_id[t] = 0 THEN next_id + 1 ELSE next_id
                  /\ current_context' = [current_context EXCEPT ![t] =
                                           [correlation_id |-> cid, attempt |-> 0]]
            /\ UNCHANGED <<failure_count, last_failure_time>>
    /\ UNCHANGED <<success_count, params, now>>
    /\ UNCHANGED outside_resilience

\* --------------------------------------------------------------- actions
\* CircuitBreaker.call, the block under the lock: reject while OPEN and
\* cooling down, otherwise admit (OPEN -> HALF_OPEN once cooled down).
\* An admitted caller enters _make_api_request_with_retry: correlation id
\* and request context are set up before the loop.
call(t) ==
    /\ lock_free
    /\ pc[t] = "idle"
    /\ IF state = "OPEN" /\ ~should_attempt_reset
       THEN /\ result' = [result EXCEPT ![t] = Raised("CircuitBreakerOpenError", time_until_retry, "-")]
            /\ invoked' = [invoked EXCEPT ![t] = 0]
            /\ http_attempts' = [http_attempts EXCEPT ![t] = 0]
            /\ UNCHANGED <<state, pc, attempt, outcomes, sleeps, admitted_in,
                           error_ctx, tracing>>
       ELSE /\ state' = IF state = "OPEN" THEN "HALF_OPEN" ELSE state
            /\ error_ctx' = [error_ctx EXCEPT ![t] = NoErrorContext]
            /\ pc' = [pc EXCEPT ![t] = "running"]
            /\ invoked' = [invoked EXCEPT ![t] = 1]
            /\ attempt' = [attempt EXCEPT ![t] = 0]
            /\ http_attempts' = [http_attempts EXCEPT ![t] = 0]
            /\ outcomes' = [outcomes EXCEPT ![t] = <<>>]
            /\ sleeps' = [sleeps EXCEPT ![t] = <<>>]
            /\ result' = [result EXCEPT ![t] = NoResult]
            /\ admitted_in' = [admitted_in EXCEPT ![t] =
                                  IF state = "OPEN" THEN "HALF_OPEN" ELSE state]
            /\ LET cid == ensure_correlation_id(correlation_id[t], next_id)
               IN /\ correlation_id' = [correlation_id EXCEPT ![t] = cid]
                  /\ next_id' = IF correlation_id[t] = 0 THEN next_id + 1 ELSE next_id
                  /\ current_context' = [current_context EXCEPT ![t] =
                                           [correlation_id |-> cid, attempt |-> 0]]
    /\ UNCHANGED <<failure_count, success_count, last_failure_time, params, now>>
    /\ UNCHANGED outside_resilience

\* one iteration of "for attempt in range(max_retries)"
attempt_request(t) ==
    /\ pc[t] = "running"
    /\ attempt[t] < max_retries
    /\ \E o \in Outcomes :
         LET eff == loop_iteration(o, attempt[t], max_retries, DefaultBackoffBase,
                                   DefaultNetworkErrorDelay, schema_validation)
         IN /\ http_attempts' = [http_attempts EXCEPT ![t] = @ + 1]
            /\ outcomes' = [outcomes EXCEPT ![t] = Append(@, o)]
            /\ sleeps' = [sleeps EXCEPT ![t] = @ \o eff.sleep]
            /\ current_context' = [current_context EXCEPT ![t].attempt = attempt[t] + 1]
            /\ error_ctx' = IF o.kind \in {"Timeout", "RequestException"}
                            THEN [error_ctx EXCEPT ![t] = from_exception(t, o.kind, attempt[t])]
                            ELSE error_ctx
            /\ CASE eff.act = "return" ->
                      /\ pc' = [pc EXCEPT ![t] = "returned"]
                      /\ result' = [result EXCEPT ![t] = Returned(eff.value)]
                      /\ UNCHANGED attempt
                 [] eff.act = "raise" ->
                      /\ pc' = [pc EXCEPT ![t] = "raised"]
                      /\ result' = [result EXCEPT ![t] = Raised(eff.error, eff.status, eff.value)]
                      /\ UNCHANGED attempt
                 [] eff.act = "retry" ->
                      /\ attempt' = [attempt EXCEPT ![t] = @ + 1]
                      /\ UNCHANGED <<pc, result>>
    /\ UNCHANGED <<breaker, params, now, invoked, correlation_id, next_id>>
    /\ UNCHANGED outside_resilience
    /\ UNCHANGED admitted_in

\* the loop ran out of iterations: "return None"
loop_exhausted(t) ==
    /\ pc[t] = "running"
    /\ attempt[t] >= max_retries
    /\ pc' = [pc EXCEPT ![t] = "returned"]
    /\ result' = [result EXCEPT ![t] = Returned("None")]
    /\ UNCHANGED <<breaker, params, now, attempt, invoked, http_attempts,
                   outcomes, sleeps, tracing>>
    /\ UNCHANGED outside_resilience
    /\ UNCHANGED <<admitted_in, error_ctx>>

\* CircuitBreaker._on_success, then call() returns the result
on_success(t) ==
    /\ lock_free
    /\ pc[t] = "returned"
    /\ LET b == on_success_update(state, failure_count, success_count, success_threshold)
       IN /\ state' = b.state
          /\ failure_count' = b.failure_count
          /\ success_count' = b.success_count
    /\ pc' = [pc EXCEPT ![t] = "idle"]
    /\ result' = [result EXCEPT ![t] = call_outcome(@)]
    /\ outcomes' = [outcomes EXCEPT ![t] = <<>>]
    /\ sleeps' = [sleeps EXCEPT ![t] = <<>>]
    /\ error_ctx' = [error_ctx EXCEPT ![t] = NoErrorContext]
    /\ UNCHANGED <<last_failure_time, params, now, attempt, invoked,
                   http_attempts, tracing>>
    /\ UNCHANGED outside_resilience
    /\ UNCHANGED admitted_in

\* CircuitBreaker._on_failure, then call() re-raises
on_failure(t) ==
    /\ lock_free
    /\ pc[t] = "raised"
    /\ LET b == on_failure_update(state, failure_count, success_count, failure_threshold)
       IN /\ state' = b.state
          /\ failure_count' = b.failure_count
          /\ success_count' = b.success_count
    /\ last_failure_time' = now
    /\ pc' = [pc EXCEPT ![t] = "idle"]
    /\ result' = [result EXCEPT ![t] = call_outcome(@)]
    /\ outcomes' = [outcomes EXCEPT ![t] = <<>>]
    /\ sleeps' = [sleeps EXCEPT ![t] = <<>>]
    /\ error_ctx' = [error_ctx EXCEPT ![t] = NoErrorContext]
    /\ UNCHANGED <<params, now, attempt, invoked, http_attempts, tracing>>
    /\ UNCHANGED outside_resilience
    /\ UNCHANGED admitted_in

\* (variant: reset() forgets to clear the counters)
reset_state_only ==
    /\ lock_free
    /\ state' = "CLOSED"
    /\ last_failure_time' = NoTime
    /\ UNCHANGED <<failure_count, success_count, params, now, locals, tracing>>
    /\ UNCHANGED outside_resilience

\* CircuitBreaker.reset
reset ==
    /\ lock_free
    /\ state' = "CLOSED"
    /\ failure_count' = 0
    /\ success_count' = 0
    /\ last_failure_time' = NoTime
    /\ UNCHANGED <<params, now, locals, tracing>>
    /\ UNCHANGED outside_resilience

\* the wall clock advances
Tick ==
    /\ now < MaxTime
    /\ now' = now + 1
    /\ UNCHANGED <<breaker, params, locals, tracing>>
    /\ UNCHANGED outside_resilience

\* ------------------------------------------------- ConcurrentAPIClient
\* items handed to execute_batch, what fn returns and the messages fn raises
Items == {"a", "b"}
FnValues == {"r1", "r2"}
FnErrors == {"boom"}
\* str(TimeoutError()) of future.result(timeout=120)
TimeoutMessage == ""

\* item lists of execute_batch: the empty list and repeated items included
ItemLists == UNION {[1..n -> Items] : n \in 0..MaxItems}

\* an entry of the results dict: fn's return value or the failure record
\* {"success": False, "error": str(e)}
Entry(v) == [success |-> TRUE, value |-> v]
FailureRecord(msg) == [success |-> FALSE, value |-> msg]

\* results[item] = entry
dict_set(d, k, v) == [x \in DOMAIN d \cup {k} |-> IF x = k THEN v ELSE d[x]]
EmptyDict == [x \in {} |-> Entry("-")]

\* a work item of the ThreadPoolExecutor
Future(item) == [item |-> item, st |-> "pending", value |-> "-"]
Busy == {i \in 1..Len(futures) : futures[i].st \in {"running", "stuck"}}
Unfinished == {i \in 1..Len(futures) : futures[i].st \in {"pending", "running", "stuck"}}

\* future.result(timeout=120) for future f, when it returns or raises at all
future_result(f) ==
    IF f.st = "returned" THEN Entry(f.value)
    ELSE IF f.st = "raised" THEN FailureRecord(f.value)
    ELSE FailureRecord(TimeoutMessage)

\* future.result(timeout=120) stops waiting: the future is finished, or it
\* will not finish (its function hangs, or it waits for a worker while
\* every worker hangs)
result_ready(f) ==
    \/ f.st \in {"returned", "raised", "stuck"}
    \/ /\ f.st = "pending"
       /\ Cardinality({i \in 1..Len(futures) : futures[i].st = "stuck"}) >= max_workers

\* (variant: closing a session that is already closed reopens it)
session_close_toggle(closed) == ~closed

\* requests.Session.close()
session_close(closed) == TRUE

\* ConcurrentAPIClient.__init__
InitClient ==
    /\ max_workers \in 1..MaxWorkers
    /\ executor_shutdown = FALSE
    /\ session_closed = FALSE
    /\ shutdown_log = <<>>
    /\ spc = "idle"
    /\ bpc = "idle"
    /\ items = <<>>
    /\ futures = <<>>
    /\ results = EmptyDict
    /\ collected = 0
    /\ client_error = "none"

\* execute_batch(func, its): the empty list returns {} at once; otherwise
\* the submit loop starts
execute_batch(its) ==
    /\ bpc = "idle" /\ spc = "idle"
    /\ items' = its
    /\ results' = EmptyDict
    /\ collected' = 0
    /\ client_error' = "none"
    /\ bpc' = IF its = <<>> THEN "returned" ELSE "submitting"
    /\ UNCHANGED <<max_workers, executor_shutdown, session_closed, shutdown_log,
                   spc, futures>>
    /\ UNCHANGED outside_batch

\* one iteration of the submit loop: executor.submit raises RuntimeError
\* after shutdown; after the last submit the collection loop starts
submit ==
    /\ bpc = "submitting"
    /\ IF executor_shutdown
       THEN /\ bpc' = "raised"
            /\ client_error' = "RuntimeError"
            /\ UNCHANGED futures
       ELSE /\ futures' = Append(futures, Future(items[Len(futures) + 1]))
            /\ bpc' = IF Len(futures) + 1 = Len(items) THEN "collecting" ELSE "submitting"
            /\ UNCHANGED client_error
    /\ UNCHANGED <<max_workers, executor_shutdown, session_closed, shutdown_log,
                   spc, items, results, collected>>
    /\ UNCHANGED outside_batch

\* a free worker thread takes the oldest queued work item
worker_start ==
    /\ Cardinality(Busy) < max_workers
    /\ \E i \in 1..Len(futures) :
        /\ futures[i].st = "pending"
        /\ \A j \in 1..(i - 1) : futures[j].st # "pending"
        /\ futures' = [futures EXCEPT ![i].st = "running"]
    /\ UNCHANGED <<max_workers, executor_shutdown, session_closed, shutdown_log,
                   spc, bpc, items, results, collected, client_error>>
    /\ UNCHANGED outside_batch

\* func(item, **common_kwargs) returns v in a worker
worker_return(i, v) ==
    /\ i \in 1..Len(futures)
    /\ futures[i].st = "running"
    /\ futures' = [futures EXCEPT ![i].st = "returned", ![i].value = v]
    /\ UNCHANGED <<max_workers, executor_shutdown, session_closed, shutdown_log,
                   spc, bpc, items, results, collected, client_error>>
    /\ UNCHANGED outside_batch

\* func(item, **common_kwargs) raises an Exception with message e
worker_raise(i, e) ==
    /\ i \in 1..Len(futures)
    /\ futures[i].st = "running"
    /\ futures' = [futures EXCEPT ![i].st = "raised", ![i].value = e]
    /\ UNCHANGED <<max_workers, executor_shutdown, session_closed, shutdown_log,
                   spc, bpc, items, results, collected, client_error>>
    /\ UNCHANGED outside_batch

\* func(item, **common_kwargs) never finishes
worker_hang(i) ==
    /\ i \in 1..Len(futures)
    /\ futures[i].st = "running"
    /\ futures' = [futures EXCEPT ![i].st = "stuck"]
    /\ UNCHANGED <<max_workers, executor_shutdown, session_closed, shutdown_log,
                   spc, bpc, items, results, collected, client_error>>
    /\ UNCHANGED outside_batch

\* one iteration of the collection loop, in submission order; after the
\* last one execute_batch returns results
collect ==
    /\ bpc = "collecting"
    /\ LET i == collected + 1 IN
        /\ result_ready(futures[i])
        /\ results' = dict_set(results, futures[i].item, future_result(futures[i]))
        /\ collected' = i
        /\ bpc' = IF i = Len(futures) THEN "returned" ELSE "collecting"
    /\ UNCHANGED <<max_workers, executor_shutdown, session_closed, shutdown_log,
                   spc, items, futures, client_error>>
    /\ UNCHANGED outside_batch

\* shutdown(wait=True) is entered, by an explicit call or by __exit__:
\* executor.shutdown marks the pool as shut down and waits for its workers
shutdown_enter(via) ==
    /\ spc = "idle" /\ bpc \in {"idle", "returned", "raised"}
    /\ Len(shutdown_log) < MaxShutdowns
    /\ executor_shutdown' = TRUE
    /\ shutdown_log' = Append(shutdown_log, via)
    /\ spc' = "waiting"
    /\ UNCHANGED <<max_workers, session_closed, bpc, items, futures, results,
                   collected, client_error>>
    /\ UNCHANGED outside_batch

\* ConcurrentAPIClient.shutdown, called explicitly
shutdown == shutdown_enter("shutdown")

\* ConcurrentAPIClient.__exit__, at the end of a with block (normal, or
\* left by the exception of execute_batch)
exit == shutdown_enter("exit")

\* all workers have finished: executor.shutdown returns, the session is
\* closed and shutdown() returns
shutdown_return ==
    /\ spc = "waiting"
    /\ Unfinished = {}
    /\ session_closed' = session_close(session_closed)
    /\ spc' = "idle"
    /\ client_error' = "none"
    /\ UNCHANGED <<max_workers, executor_shutdown, shutdown_log, bpc, items,
                   futures, results, collected>>
    /\ UNCHANGED outside_batch


\* ------------------------------------------------------- ResponseCache
\* names and keyword arguments of cached calls; the arguments are listed in
\* the order the caller wrote them
FuncNames == {"traffic", "emissions"}
KwargLists ==
    { << <<"cp_code", "1">>, <<"start_date", "d">> >>,
      << <<"start_date", "d">>, <<"cp_code", "1">> >>,
      << <<"cp_code", "2">>, <<"start_date", "d">> >> }

\* what fn returns (Python objects) and what a cache file holds (JSON)
PyValues == {"dict", "tuple", "None"}

\* json.load(json.dump(v)): a tuple comes back as a list, None as null
json_roundtrip(v) == IF v = "tuple" THEN "list" ELSE v

\* argument values of _get_cache_key: strings, a tuple and a list with the
\* same elements, and an object json cannot serialise (the EdgeGridAuth and
\* ConfigLoader that call_traffic_api passes)
UnserialisableArgs == {"<EdgeGridAuth>", "<ConfigLoader>"}

\* json.dumps of one argument value: a tuple is written as a list
json_dumps(v) == IF v = "(1, 2)" THEN "[1, 2]" ELSE v

\* json.dumps raises TypeError on the arguments
key_raises(kwargs) ==
    \E i \in 1..Len(kwargs) : kwargs[i][2] \in UnserialisableArgs

\* _get_cache_key: sha256 of json.dumps({"func", "args"}, sort_keys=True),
\* the digest taken as injective
get_cache_key(name, kwargs) ==
    [func |-> name,
     args |-> {<<kwargs[i][1], json_dumps(kwargs[i][2])>> : i \in 1..Len(kwargs)}]
CacheKeys == {get_cache_key(n, k) : n \in FuncNames, k \in KwargLists}

\* a cache file: absent, or {"value", "expires_at"}; form is "ok" for a file
\* written by set() and names the damage of any other file
NoFile == [present |-> FALSE, value |-> "-", expires_at |-> 0, form |-> "-"]
File(v, exp) == [present |-> TRUE, value |-> v, expires_at |-> exp, form |-> "ok"]

\* damaged files: content that is not JSON, a record without "expires_at",
\* a record without "value", an expiry string fromisoformat rejects, an
\* expiry that is not a string, JSON that is not a record (a list, a string)
Damages == {"undecodable", "no_expires_at", "no_value", "bad_expiry",
            "expiry_not_a_string", "not_a_record"}
\* the damages get() survives: JSONDecodeError, KeyError, ValueError
CaughtDamages == {"undecodable", "no_expires_at", "no_value", "bad_expiry"}
Damaged(f, kind) ==
    [present |-> TRUE, value |-> "-", expires_at |-> f.expires_at, form |-> kind]

\* ResponseCache.get raises: TypeError is not among the caught exceptions
get_raises(files, key) ==
    files[key].present /\ files[key].form \in Damages \ CaughtDamages

\* (variant: an entry is still served at its expiry instant)
get_value_at_expiry(files, key, time) ==
    IF ~files[key].present THEN "None"
    ELSE IF files[key].form # "ok" THEN "None"
    ELSE IF time > files[key].expires_at THEN "None"
    ELSE files[key].value

\* ResponseCache.get: the value returned ("None" for a miss) ...
get_value(files, key, time) ==
    IF ~files[key].present THEN "None"
    ELSE IF files[key].form # "ok" THEN "None"
    ELSE IF time >= files[key].expires_at THEN "None"
    ELSE files[key].value

\* ... and the files it leaves (an expired or damaged file is unlinked)
get_files(files, key, time) ==
    IF /\ files[key].present
       /\ ~get_raises(files, key)
       /\ (files[key].form # "ok" \/ time >= files[key].expires_at)
    THEN [files EXCEPT ![key] = NoFile]
    ELSE files

\* ResponseCache.set
set_files(files, key, v, time) ==
    [files EXCEPT ![key] = File(json_roundtrip(v), time + ttl)]

\* cached_call: 'if cached_result is not None'
is_hit(files, key, time) == get_value(files, key, time) # "None"

\* the most recent set() of a key whose file nobody else has written since
NoSet == [has |-> FALSE, value |-> "-", expires_at |-> 0]
SetRecord(v, exp) == [has |-> TRUE, value |-> v, expires_at |-> exp]

\* ResponseCache.__init__ (the TTL in clock ticks), an empty cache_dir
InitCacheStore ==
    /\ ttl \in 0..MaxTTL
    /\ cache_files = [k \in CacheKeys |-> NoFile]
    /\ cache_calls = 0
    /\ fn_calls = 0
    /\ last_key = get_cache_key("traffic", <<>>)
    /\ last_result = "-"
    /\ last_op = "-"
    /\ set_log = [k \in CacheKeys |-> NoSet]

\* cached_call(func, name, **kwargs) where func, if it is called, returns v
cached_call(name, kwargs, v) ==
    /\ cache_calls < MaxCalls
    /\ ~key_raises(kwargs)
    /\ ~get_raises(cache_files, get_cache_key(name, kwargs))
    /\ LET key == get_cache_key(name, kwargs)
           files1 == get_files(cache_files, key, now)
       IN  /\ last_key' = key
           /\ IF is_hit(cache_files, key, now)
              THEN /\ last_result' = get_value(cache_files, key, now)
                   /\ cache_files' = files1
                   /\ UNCHANGED <<fn_calls, set_log>>
              ELSE /\ fn_calls' = fn_calls + 1
                   /\ cache_files' = set_files(files1, key, v, now)
                   /\ set_log' = [set_log EXCEPT ![key] = SetRecord(v, now + ttl)]
                   /\ last_result' = v
    /\ cache_calls' = cache_calls + 1
    /\ last_op' = "cached_call"
    /\ UNCHANGED ttl
    /\ UNCHANGED outside_cache

\* (variant: the failure is stored as the entry of the key)
cached_call_raises_stored(name, kwargs) ==
    /\ cache_calls < MaxCalls
    /\ ~key_raises(kwargs)
    /\ ~get_raises(cache_files, get_cache_key(name, kwargs))
    /\ LET key == get_cache_key(name, kwargs) IN
        /\ ~is_hit(cache_files, key, now)
        /\ last_key' = key
        /\ cache_files' = set_files(get_files(cache_files, key, now), key, "error", now)
    /\ fn_calls' = fn_calls + 1
    /\ last_result' = "raised"
    /\ cache_calls' = cache_calls + 1
    /\ last_op' = "cached_call"
    /\ UNCHANGED <<ttl, set_log>>
    /\ UNCHANGED outside_cache

\* cached_call(func, name, **kwargs) where func is called and raises: the
\* exception propagates and nothing is stored
cached_call_raises(name, kwargs) ==
    /\ cache_calls < MaxCalls
    /\ ~key_raises(kwargs)
    /\ ~get_raises(cache_files, get_cache_key(name, kwargs))
    /\ LET key == get_cache_key(name, kwargs) IN
        /\ ~is_hit(cache_files, key, now)
        /\ last_key' = key
        /\ cache_files' = get_files(cache_files, key, now)
    /\ fn_calls' = fn_calls + 1
    /\ last_result' = "raised"
    /\ cache_calls' = cache_calls + 1
    /\ last_op' = "cached_call"
    /\ UNCHANGED <<ttl, set_log>>
    /\ UNCHANGED outside_cache

\* cached_call(func, name, **kwargs) where get() raises TypeError on the
\* file of the key: the exception propagates, func is not called
cached_call_get_raises(name, kwargs) ==
    /\ cache_calls < MaxCalls
    /\ ~key_raises(kwargs)
    /\ get_raises(cache_files, get_cache_key(name, kwargs))
    /\ last_key' = get_cache_key(name, kwargs)
    /\ last_result' = "TypeError"
    /\ cache_calls' = cache_calls + 1
    /\ last_op' = "cached_call"
    /\ UNCHANGED <<ttl, cache_files, fn_calls, set_log>>
    /\ UNCHANGED outside_cache

\* ResponseCache.get(key)
get(key) ==
    /\ last_key' = key
    /\ last_op' = "get"
    /\ IF get_raises(cache_files, key)
       THEN /\ last_result' = "TypeError"
            /\ UNCHANGED cache_files
       ELSE /\ last_result' = get_value(cache_files, key, now)
            /\ cache_files' = get_files(cache_files, key, now)
    /\ UNCHANGED <<ttl, cache_calls, fn_calls, set_log>>
    /\ UNCHANGED outside_cache

\* ResponseCache.set(key, v)
set(key, v) ==
    /\ last_key' = key
    /\ last_op' = "set"
    /\ last_result' = "None"
    /\ cache_files' = set_files(cache_files, key, v, now)
    /\ set_log' = [set_log EXCEPT ![key] = SetRecord(v, now + ttl)]
    /\ UNCHANGED <<ttl, cache_calls, fn_calls>>
    /\ UNCHANGED outside_cache

\* something other than the cache rewrites the file of a key
damage(key, kind) ==
    /\ cache_files[key].form # kind
    /\ cache_files' = [cache_files EXCEPT ![key] = Damaged(cache_files[key], kind)]
    /\ set_log' = [set_log EXCEPT ![key] = NoSet]
    /\ last_key' = key
    /\ last_op' = "damage"
    /\ last_result' = "-"
    /\ UNCHANGED <<ttl, cache_calls, fn_calls>>
    /\ UNCHANGED outside_cache

\* ------------------------------------------------------ _get_cache_key
\* keyword arguments of the calls whose keys are compared: the cached calls
\* above, a tuple and a list with the same elements, an object that json
\* cannot serialise, fewer arguments
KeyKwargLists ==
    KwargLists \cup
    { << <<"cp_code", "(1, 2)">> >>,
      << <<"cp_code", "[1, 2]">> >>,
      << <<"cp_code", "1">> >>,
      << <<"auth", "<EdgeGridAuth>">>, <<"cp_code", "1">> >>,
      << >> }
KeyCalls == [name : FuncNames, kwargs : KeyKwargLists]

\* the outcome of _get_cache_key(name, **kwargs): the key, or TypeError
NoKey == [func |-> "-", args |-> {}]
NoKeyResult == [done |-> FALSE, raised |-> FALSE, key |-> NoKey]
key_result(c) ==
    IF key_raises(c.kwargs) THEN [done |-> TRUE, raised |-> TRUE, key |-> NoKey]
    ELSE [done |-> TRUE, raised |-> FALSE, key |-> get_cache_key(c.name, c.kwargs)]

DefaultKeyCalls ==
    << [name |-> "traffic", kwargs |-> <<>>], [name |-> "traffic", kwargs |-> <<>>] >>

\* two calls whose keys are to be computed
InitKeys ==
    /\ key_calls \in KeyCalls \X KeyCalls
    /\ key_out = <<NoKeyResult, NoKeyResult>>

\* no key comparison takes place
KeysIdle == key_calls = DefaultKeyCalls

\* ResponseCache._get_cache_key for both calls
compute_keys ==
    /\ ~key_out[1].done
    /\ key_out' = <<key_result(key_calls[1]), key_result(key_calls[2])>>
    /\ UNCHANGED key_calls
    /\ UNCHANGED outside_keys

\* ------------------------------------------- call_traffic_api, cached
\* the keyword arguments call_traffic_api hands to cached_call: the url,
\* the {"start", "end"} dict and the payload (JSON data, written here as
\* strings), the EdgeGridAuth object and the ConfigLoader object
TrafficKwargs ==
    << <<"url", "u">>, <<"params", "d">>, <<"payload", "p">>,
       <<"auth", "<EdgeGridAuth>">>, <<"config_loader", "<ConfigLoader>">> >>

\* call_traffic_api with enable_cache, up to the point where cached_call
\* leaves or calls func: _get_cache_key raises TypeError, or the lookup
\* hits and the cached value is returned, or it misses and func, the call
\* of the Traffic breaker, starts
cached_traffic_call(t) ==
    /\ pc[t] = "idle"
    /\ IF key_raises(TrafficKwargs)
       THEN /\ result' = [result EXCEPT ![t] = Raised("TypeError", 0, "-")]
            /\ invoked' = [invoked EXCEPT ![t] = 0]
            /\ http_attempts' = [http_attempts EXCEPT ![t] = 0]
            /\ UNCHANGED <<breaker, params, now, pc, attempt, outcomes, sleeps,
                           admitted_in, error_ctx, tracing>>
            /\ UNCHANGED outside_resilience
       ELSE LET key == get_cache_key("call_traffic_api", TrafficKwargs) IN
            IF is_hit(cache_files, key, now)
            THEN /\ result' = [result EXCEPT ![t] =
                                  Returned(get_value(cache_files, key, now))]
                 /\ invoked' = [invoked EXCEPT ![t] = 0]
                 /\ http_attempts' = [http_attempts EXCEPT ![t] = 0]
                 /\ UNCHANGED <<breaker, params, now, pc, attempt, outcomes,
                                sleeps, admitted_in, error_ctx, tracing>>
                 /\ UNCHANGED outside_resilience
            ELSE call(t)

\* ----------------------------------------------------- ServiceContainer
\* positions in the container's code; the top of cstack[t] is where thread
\* t is, the labels below it are where its callers continue
\*   init_lock, cfg_lock, auth_lock, reset_lock: at "with self._lock"
\*   init_body, cfg_body, auth_body, reset_body: inside that block
\*   cfg_check, auth_check: the unlocked first test of a property
\*   init_after_cfg, init_after_auth, auth_setup: after a nested property
LockLabels == {"init_lock", "cfg_lock", "auth_lock", "reset_lock"}
NoOwner == "none"

Top(t) == cstack[t][Len(cstack[t])]
At(t, label) == cstack[t] # <<>> /\ Top(t) = label
Pop(t) == [cstack EXCEPT ![t] = SubSeq(@, 1, Len(@) - 1)]
Goto(t, label) == [cstack EXCEPT ![t] = SubSeq(@, 1, Len(@) - 1) \o <<label>>]
GotoAndCall(t, label, callee) ==
    [cstack EXCEPT ![t] = SubSeq(@, 1, Len(@) - 1) \o <<label, callee>>]

\* ServiceContainer.__init__
InitContainer ==
    /\ c_config_loader = FALSE
    /\ c_auth = FALSE
    /\ c_initialized = FALSE
    /\ c_lock = NoOwner
    /\ cstack = [t \in Threads |-> <<>>]

\* a thread calls initialize(), reads the config_loader or auth property,
\* or calls reset()
container_call(t, entry) ==
    /\ cstack[t] = <<>>
    /\ cstack' = [cstack EXCEPT ![t] = <<entry>>]
    /\ UNCHANGED <<c_config_loader, c_auth, c_initialized, c_lock>>
    /\ UNCHANGED outside_container

\* threading.Lock.acquire succeeds: the lock is not held, by anybody
can_acquire(t) == c_lock = NoOwner

\* "with self._lock:" is entered
acquire(t) ==
    /\ cstack[t] # <<>> /\ Top(t) \in LockLabels
    /\ can_acquire(t)
    /\ c_lock' = t
    /\ cstack' = Goto(t, CASE Top(t) = "init_lock" -> "init_body"
                           [] Top(t) = "cfg_lock" -> "cfg_body"
                           [] Top(t) = "auth_lock" -> "auth_body"
                           [] OTHER -> "reset_body")
    /\ UNCHANGED <<c_config_loader, c_auth, c_initialized>>
    /\ UNCHANGED outside_container

\* initialize, inside the lock: nothing to do, or read self.config_loader
init_body(t) ==
    /\ At(t, "init_body")
    /\ IF c_initialized
       THEN cstack' = Pop(t) /\ c_lock' = NoOwner
       ELSE cstack' = GotoAndCall(t, "init_after_cfg", "cfg_check") /\ UNCHANGED c_lock
    /\ UNCHANGED <<c_config_loader, c_auth, c_initialized>>
    /\ UNCHANGED outside_container

\* initialize: self.config_loader returned, read self.auth
init_after_cfg(t) ==
    /\ At(t, "init_after_cfg")
    /\ cstack' = GotoAndCall(t, "init_after_auth", "auth_check")
    /\ UNCHANGED <<c_config_loader, c_auth, c_initialized, c_lock>>
    /\ UNCHANGED outside_container

\* initialize: self.auth returned, set _initialized and leave the lock
init_after_auth(t) ==
    /\ At(t, "init_after_auth")
    /\ c_initialized' = TRUE
    /\ c_lock' = NoOwner
    /\ cstack' = Pop(t)
    /\ UNCHANGED <<c_config_loader, c_auth>>
    /\ UNCHANGED outside_container

\* config_loader property: "if self._config_loader is None"
cfg_check(t) ==
    /\ At(t, "cfg_check")
    /\ cstack' = IF c_config_loader THEN Pop(t) ELSE Goto(t, "cfg_lock")
    /\ UNCHANGED <<c_config_loader, c_auth, c_initialized, c_lock>>
    /\ UNCHANGED outside_container

\* config_loader property, inside the lock: load if still None
cfg_body(t) ==
    /\ At(t, "cfg_body")
    /\ c_config_loader' = TRUE
    /\ c_lock' = NoOwner
    /\ cstack' = Pop(t)
    /\ UNCHANGED <<c_auth, c_initialized>>
    /\ UNCHANGED outside_container

\* auth property: "if self._auth is None"
auth_check(t) ==
    /\ At(t, "auth_check")
    /\ cstack' = IF c_auth THEN Pop(t) ELSE Goto(t, "auth_lock")
    /\ UNCHANGED <<c_config_loader, c_auth, c_initialized, c_lock>>
    /\ UNCHANGED outside_container

\* auth property, inside the lock: if still None, read self.config_loader
auth_body(t) ==
    /\ At(t, "auth_body")
    /\ IF c_auth
       THEN cstack' = Pop(t) /\ c_lock' = NoOwner
       ELSE cstack' = GotoAndCall(t, "auth_setup", "cfg_check") /\ UNCHANGED c_lock
    /\ UNCHANGED <<c_config_loader, c_auth, c_initialized>>
    /\ UNCHANGED outside_container

\* auth property: setup_authentication(self.config_loader), leave the lock
auth_setup(t) ==
    /\ At(t, "auth_setup")
    /\ c_auth' = TRUE
    /\ c_lock' = NoOwner
    /\ cstack' = Pop(t)
    /\ UNCHANGED <<c_config_loader, c_initialized>>
    /\ UNCHANGED outside_container

\* reset, inside the lock
reset_body(t) ==
    /\ At(t, "reset_body")
    /\ c_config_loader' = FALSE
    /\ c_auth' = FALSE
    /\ c_initialized' = FALSE
    /\ c_lock' = NoOwner
    /\ cstack' = Pop(t)
    /\ UNCHANGED outside_container

\* ------------------------------------------------------------------ Init
Init ==
    /\ state = "CLOSED"
    /\ failure_count = 0
    /\ success_count = 0
    /\ last_failure_time = NoTime
    /\ failure_threshold \in 1..MaxFailureThreshold
    /\ success_threshold \in 1..MaxSuccessThreshold
    /\ recovery_timeout \in 0..MaxRecoveryTimeout
    /\ max_retries \in 0..MaxRetries
    /\ schema_validation \in BOOLEAN
    /\ now = 0
    /\ pc = [t \in Threads |-> "idle"]
    /\ attempt = [t \in Threads |-> 0]
    /\ invoked = [t \in Threads |-> 0]
    /\ http_attempts = [t \in Threads |-> 0]
    /\ outcomes = [t \in Threads |-> <<>>]
    /\ sleeps = [t \in Threads |-> <<>>]
    /\ result = [t \in Threads |-> NoResult]
    /\ admitted_in = [t \in Threads |-> "-"]
    /\ error_ctx = [t \in Threads |-> NoErrorContext]
    /\ correlation_id = [t \in Threads |-> 0]
    /\ current_context = [t \in Threads |-> NoContext]
    /\ next_id = 1
    /\ InitClient
    /\ InitCacheStore
    /\ InitKeys
    /\ InitContainer

\* a single caller: reset() is called between calls, not during one
Next ==
    \/ \E t \in SeqThreads : call(t)
    \/ \E t \in SeqThreads : attempt_request(t)
    \/ \E t \in SeqThreads : loop_exhausted(t)
    \/ \E t \in SeqThreads : on_success(t)
    \/ \E t \in SeqThreads : on_failure(t)
    \/ (\A t \in Threads : pc[t] = "idle") /\ reset
    \/ Tick

Spec == Init /\ [][Next]_vars

\* The breaker in general: any thresholds and cooldown; the wrapped
\* operation returns or raises after at most BreakerMaxRetries attempts.
InitBreaker ==
    /\ Init
    /\ KeysIdle
    /\ max_workers = 1
    /\ ttl = MaxTTL
    /\ max_retries \in 0..BreakerMaxRetries
    /\ schema_validation = FALSE

SpecBreaker == InitBreaker /\ [][Next]_vars

\* The retrying executor behind the Traffic / Emissions breaker
\* (failure_threshold 3, success_threshold 2), every max_retries and both
\* settings of the schema-validation switch; the cooldown is scaled to the
\* clock bound.
InitRetry ==
    /\ Init
    /\ KeysIdle
    /\ max_workers = 1
    /\ ttl = MaxTTL
    /\ failure_threshold = TrafficFailureThreshold
    /\ success_threshold = TrafficSuccessThreshold
    /\ recovery_timeout = MaxRecoveryTimeout

SpecRetry == InitRetry /\ [][Next]_vars

\* One ConcurrentAPIClient and its main thread: one batch, the workers of
\* the pool, shutdown() and __exit__.
InitBatch ==
    /\ Init
    /\ KeysIdle
    /\ failure_threshold = TrafficFailureThreshold
    /\ success_threshold = TrafficSuccessThreshold
    /\ recovery_timeout = MaxRecoveryTimeout
    /\ max_retries = MaxRetries
    /\ schema_validation = FALSE
    /\ ttl = MaxTTL

NextBatch ==
    \/ \E its \in ItemLists : execute_batch(its)
    \/ submit
    \/ worker_start
    \/ \E i \in 1..MaxItems, v \in FnValues : worker_return(i, v)
    \/ \E i \in 1..MaxItems, e \in FnErrors : worker_raise(i, e)
    \/ \E i \in 1..MaxItems : worker_hang(i)
    \/ collect
    \/ shutdown
    \/ exit
    \/ shutdown_return

SpecBatch == InitBatch /\ [][NextBatch]_vars

\* One ResponseCache used by one caller while the clock advances.
InitCache ==
    /\ Init
    /\ KeysIdle
    /\ failure_threshold = TrafficFailureThreshold
    /\ success_threshold = TrafficSuccessThreshold
    /\ recovery_timeout = MaxRecoveryTimeout
    /\ max_retries = MaxRetries
    /\ schema_validation = FALSE
    /\ max_workers = 1

NextCache ==
    \/ \E n \in FuncNames, k \in KwargLists, v \in PyValues : cached_call(n, k, v)
    \/ \E n \in FuncNames, k \in KwargLists : cached_call_raises(n, k)
    \/ Tick

SpecCache == InitCache /\ [][NextCache]_vars

\* The cache store itself: set() and get() called directly, cached_call
\* on top, while the clock advances. The values are the ones the program
\* stores: a decoded JSON payload, or None.
JsonValues == {"dict", "None"}
StoreNames == {"traffic"}
StoreKeys == {get_cache_key(n, k) : n \in StoreNames, k \in KwargLists}

InitStore ==
    /\ InitCache
    /\ ttl \in 1..MaxTTL

NextStore ==
    \/ \E key \in StoreKeys, v \in JsonValues : set(key, v)
    \/ \E key \in StoreKeys : get(key)
    \/ \E n \in StoreNames, k \in KwargLists, v \in JsonValues : cached_call(n, k, v)
    \/ \E n \in StoreNames, k \in KwargLists : cached_call_raises(n, k)
    \/ Tick

SpecStore == InitStore /\ [][NextStore]_vars

\* The cache store whose files are also rewritten from outside.
NextDamage ==
    \/ \E key \in StoreKeys, kind \in Damages : damage(key, kind)
    \/ \E key \in StoreKeys : get(key)
    \/ \E n \in StoreNames, k \in KwargLists, v \in JsonValues : cached_call(n, k, v)
    \/ \E n \in StoreNames, k \in KwargLists : cached_call_raises(n, k)
    \/ \E n \in StoreNames, k \in KwargLists : cached_call_get_raises(n, k)
    \/ Tick

SpecDamage == InitStore /\ [][NextDamage]_vars

\* _get_cache_key as a function: every pair of calls, one application.
InitKey ==
    /\ Init
    /\ failure_threshold = TrafficFailureThreshold
    /\ success_threshold = TrafficSuccessThreshold
    /\ recovery_timeout = MaxRecoveryTimeout
    /\ max_retries = MaxRetries
    /\ schema_validation = FALSE
    /\ max_workers = 1
    /\ ttl = MaxTTL

NextKey == compute_keys

SpecKey == InitKey /\ [][NextKey]_vars

\* One ServiceContainer shared by the threads of the program.
InitContainerOnly ==
    /\ InitKey
    /\ KeysIdle

NextContainer ==
    \/ \E t \in Threads : container_call(t, "init_lock")
    \/ \E t \in Threads : container_call(t, "cfg_check")
    \/ \E t \in Threads : container_call(t, "auth_check")
    \/ \E t \in Threads : container_call(t, "reset_lock")
    \/ \E t \in Threads : acquire(t)
    \/ \E t \in Threads : init_body(t)
    \/ \E t \in Threads : init_after_cfg(t)
    \/ \E t \in Threads : init_after_auth(t)
    \/ \E t \in Threads : cfg_check(t)
    \/ \E t \in Threads : cfg_body(t)
    \/ \E t \in Threads : auth_check(t)
    \/ \E t \in Threads : auth_body(t)
    \/ \E t \in Threads : auth_setup(t)
    \/ \E t \in Threads : reset_body(t)

SpecContainer == InitContainerOnly /\ [][NextContainer]_vars

\* The breaker shared by two threads: calls, attempts and completions of
\* both interleave freely, reset() is called at any moment.
InitConcurrent ==
    /\ Init
    /\ KeysIdle
    /\ failure_threshold \in 1..MaxConcurrentFailureThreshold
    /\ success_threshold = TrafficSuccessThreshold
    /\ recovery_timeout = MaxRecoveryTimeout
    /\ max_retries = 1
    /\ schema_validation = FALSE
    /\ max_workers = 1
    /\ ttl = MaxTTL

NextConcurrent ==
    \/ \E t \in Threads : call(t)
    \/ \E t \in Threads : attempt_request(t)
    \/ \E t \in Threads : on_success(t)
    \/ \E t \in Threads : on_failure(t)
    \/ reset
    \/ Tick

SpecConcurrent == InitConcurrent /\ [][NextConcurrent]_vars

\* The Traffic endpoint as call_traffic_api uses it: calls that go to the
\* breaker directly and calls with caching enabled.
InitTraffic ==
    /\ InitRetry
    /\ max_retries \in 0..BreakerMaxRetries

NextTraffic ==
    \/ Next
    \/ \E t \in SeqThreads : cached_traffic_call(t)

SpecTraffic == InitTraffic /\ [][NextTraffic]_vars

\* ------------------------------------------------------ step vocabulary
Last(sq) == sq[Len(sq)]
OpenError == "CircuitBreakerOpenError"

\* caller t is let through the gate of call()
Admitted(t) == pc[t] = "idle" /\ pc'[t] = "running"
\* caller t is turned away at the gate
Rejected(t) == pc[t] = "idle" /\ pc'[t] = "idle" /\ result'[t].error = OpenError
\* the operation of caller t has finished and call() records it
Succeeds(t) == pc[t] = "returned" /\ pc'[t] = "idle"
Fails(t) == pc[t] = "raised" /\ pc'[t] = "idle"
\* the retry loop of caller t has finished (returned or raised)
Finished(t) == pc[t] \in {"returned", "raised"}
\* caller t makes one more HTTP attempt
Attempts(t) == http_attempts'[t] = http_attempts[t] + 1

CoolingDown == last_failure_time # NoTime /\ now - last_failure_time <= recovery_timeout

RetryableStatus(o) == o.kind = "response" /\ (o.status = 429 \/ o.status >= 500)

\* ------------------------------------------------------------------ C1
\* C1: a failure that brings failure_count to failure_threshold leaves the
\* breaker OPEN, and while it is OPEN and no more than recovery_timeout
\* seconds have passed since the last failure no caller is admitted: every
\* call is rejected with CircuitBreakerOpenError, the operation is not
\* invoked and no HTTP attempt is made.
C1_OpenRejectsUntilCooldown ==
    /\ [](state = "OPEN" => last_failure_time # NoTime)
    /\ [][\A t \in Threads :
            /\ (Fails(t) /\ failure_count' >= failure_threshold => state' = "OPEN")
            /\ (state = "OPEN" /\ CoolingDown =>
                  /\ ~Admitted(t)
                  /\ (pc[t] = "idle" /\ result'[t] # result[t] =>
                        /\ result'[t].error = OpenError
                        /\ invoked'[t] = 0
                        /\ http_attempts'[t] = 0))]_vars

C1_Witness ==
    /\ state = "OPEN" /\ failure_threshold = 3 /\ failure_count = 3
    /\ recovery_timeout = 1 /\ now - last_failure_time = 1
    /\ result["t1"].error = OpenError /\ invoked["t1"] = 0

\* ------------------------------------------------------------------ C2
\* C2: a finished call() either ran the operation exactly once and handed
\* its return value or its exception to the caller unchanged, or raised
\* CircuitBreakerOpenError with the operation run zero times.
C2_OneInvocationOrRejection ==
    /\ [](\A t \in Threads :
            pc[t] = "idle" /\ result[t].kind # "none" =>
                IF result[t].error = OpenError
                THEN invoked[t] = 0 /\ http_attempts[t] = 0
                ELSE invoked[t] = 1)
    /\ [][\A t \in Threads :
            /\ (Succeeds(t) \/ Fails(t) =>
                  result'[t] = result[t] /\ invoked[t] = 1 /\ invoked'[t] = 1)
            /\ (Rejected(t) => invoked'[t] = 0)]_vars

C2_Witness ==
    /\ pc["t1"] = "idle" /\ invoked["t1"] = 1
    /\ result["t1"].kind = "error" /\ result["t1"].error = "APITimeoutError"

\* ------------------------------------------------------------------ C3
\* C3: a failure recorded while HALF_OPEN moves the breaker to OPEN with
\* success_count = 0, whatever success_count was before.
C3_HalfOpenFailureReopens ==
    [][\A t \in Threads :
         state = "HALF_OPEN" /\ Fails(t) => state' = "OPEN" /\ success_count' = 0]_vars

\* OPEN with fewer failures than the threshold: reopened by a probe failure
\* that followed a probe success
C3_Witness ==
    /\ state = "OPEN" /\ failure_count = 1 /\ success_count = 0
    /\ failure_threshold = 3 /\ success_threshold = 2

\* ------------------------------------------------------------------ C4
\* C4: a success recorded while HALF_OPEN keeps the breaker HALF_OPEN (and
\* counts it) while fewer than success_threshold successes are recorded, and
\* the success_threshold-th closes it with both counters zero.
C4_HalfOpenClosesAtThreshold ==
    /\ [](state = "HALF_OPEN" => success_count < success_threshold)
    /\ [][\A t \in Threads :
            state = "HALF_OPEN" /\ Succeeds(t) =>
                IF success_count + 1 < success_threshold
                THEN state' = "HALF_OPEN" /\ success_count' = success_count + 1
                ELSE state' = "CLOSED" /\ failure_count' = 0 /\ success_count' = 0]_vars

\* failure_threshold = 1: CLOSED after a failure means the breaker went
\* OPEN -> HALF_OPEN -> (two successes) -> CLOSED
C4_Witness ==
    /\ state = "CLOSED" /\ last_failure_time # NoTime
    /\ failure_threshold = 1 /\ success_threshold = 2
    /\ failure_count = 0 /\ success_count = 0

\* ------------------------------------------------------------------ C5
\* C5: a reset() step (the breaker leaves OPEN or HALF_OPEN, or loses its
\* counters or last_failure_time, without any call finishing) ends in the
\* state of a fresh breaker: CLOSED, both counters zero, no
\* last_failure_time; and a CLOSED breaker opens only by the failure that
\* brings failure_count to failure_threshold, one failure at a time.
IsResetStep ==
    /\ \A t \in Threads : pc'[t] = pc[t]
    /\ breaker' # breaker

C5_ResetYieldsFreshBreaker ==
    [][/\ (IsResetStep =>
             /\ state' = "CLOSED" /\ failure_count' = 0
             /\ success_count' = 0 /\ last_failure_time' = NoTime)
       /\ (state = "CLOSED" /\ state' = "OPEN" =>
             /\ failure_count' = failure_count + 1
             /\ failure_count' >= failure_threshold)
       /\ (state = "CLOSED" /\ state' = "CLOSED" /\ failure_count' \notin {0, failure_count} =>
             failure_count' = failure_count + 1)]_vars

\* the last call was rejected by an OPEN breaker, then reset() was called
C5_Witness ==
    /\ state = "CLOSED" /\ failure_count = 0 /\ success_count = 0
    /\ last_failure_time = NoTime
    /\ result["t1"].error = OpenError

\* ------------------------------------------------------------------ C6
\* C6: the breaker fields do not change while the retry loop runs; a
\* logical call that ends in an error adds exactly one to failure_count,
\* however many HTTP attempts it made; with failure_threshold = 3 the
\* breaker is OPEN once failure_count reaches 3 in CLOSED, and a call made
\* at the instant of the last failure is rejected with no HTTP attempt.
C6_OneBreakerEventPerLogicalCall ==
    [][\A t \in Threads :
         /\ (pc[t] = "running" => breaker' = breaker \/ IsResetStep)
         /\ (Fails(t) =>
               /\ failure_count' = failure_count + 1
               /\ result[t].kind = "error")
         /\ (Fails(t) /\ state = "CLOSED" /\ failure_threshold = 3 =>
               (state' = "OPEN") = (failure_count' = 3))
         /\ (state = "OPEN" /\ now = last_failure_time /\ pc[t] = "idle" =>
               /\ ~Admitted(t)
               /\ http_attempts'[t] \in {0, http_attempts[t]})]_vars

\* the third failing logical call made three HTTP attempts and opened the
\* breaker with failure_count = 3
C6_Witness ==
    /\ state = "OPEN" /\ failure_threshold = 3 /\ failure_count = 3
    /\ pc["t1"] = "idle" /\ http_attempts["t1"] = 3
    /\ result["t1"].error = "APIServerError"

\* ------------------------------------------------------------------ C7
\* C7: when the retry loop has finished, its result is either a payload of
\* a response or one of the seven typed errors.
C7_PayloadOrTypedError ==
    \A t \in Threads :
        Finished(t) =>
            \/ result[t].kind = "value" /\ result[t].value \in Bodies
            \/ result[t].kind = "error" /\ result[t].error \in TypedErrors

\* ------------------------------------------------------------------ C8
\* C8: an attempt answered with 400, 401 or 403 is the last one of its
\* logical call: it raises APIRequestError with the response body,
\* APIAuthenticationError or APIAuthorizationError, adds no sleep, and no
\* HTTP attempt follows it.
NonRetryableError(o) ==
    IF o.status = 400 THEN Raised("APIRequestError", 400, o.body)
    ELSE IF o.status = 401 THEN Raised("APIAuthenticationError", 0, "-")
    ELSE Raised("APIAuthorizationError", 0, "-")

C8_NonRetryableNotRetried ==
    /\ [](\A t \in Threads : \A i \in 1..Len(outcomes[t]) :
            outcomes[t][i].status \in {400, 401, 403} =>
                /\ i = Len(outcomes[t])
                /\ pc[t] = "raised"
                /\ http_attempts[t] = i
                /\ result[t] = NonRetryableError(outcomes[t][i]))
    /\ [][\A t \in Threads :
            /\ (Attempts(t) /\ Last(outcomes'[t]).status \in {400, 401, 403} =>
                  sleeps'[t] = sleeps[t] /\ pc'[t] = "raised")
            /\ (pc[t] = "raised" => http_attempts'[t] = http_attempts[t])]_vars

\* 403 on the second attempt, after one retried 429
C8_Witness ==
    /\ pc["t1"] = "raised" /\ http_attempts["t1"] = 2 /\ Len(sleeps["t1"]) = 1
    /\ outcomes["t1"][1].status = 429 /\ outcomes["t1"][2].status = 403
    /\ result["t1"].error = "APIAuthorizationError"

\* ------------------------------------------------------------------ C9
\* C9: the number of HTTP attempts of a logical call never exceeds
\* max_retries; a finished loop all of whose attempts were answered 429 or
\* 5xx made exactly max_retries attempts and raised APIServerError (last
\* answer 5xx) or APIRateLimitError (last answer 429).
C9_RetryableExhaustsBudget ==
    \A t \in Threads :
        /\ http_attempts[t] <= max_retries
        /\ (Finished(t) /\ (\A i \in 1..Len(outcomes[t]) : RetryableStatus(outcomes[t][i])) =>
              /\ http_attempts[t] = max_retries
              /\ result[t].kind = "error"
              /\ result[t].error \in {"APIServerError", "APIRateLimitError"}
              /\ (Len(outcomes[t]) > 0 =>
                    result[t].error = IF Last(outcomes[t]).status = 429
                                      THEN "APIRateLimitError" ELSE "APIServerError"))

\* ----------------------------------------------------------------- C10
\* C10 as stated: attempts 1..k-1 answered 429 or 5xx and attempt k answered
\* 200 give k attempts, k-1 sleeps and the payload of attempt k.
RetriedThenOk(t) ==
    /\ Finished(t)
    /\ Len(outcomes[t]) >= 1
    /\ Last(outcomes[t]).kind = "response" /\ Last(outcomes[t]).status = 200
    /\ \A i \in 1..(Len(outcomes[t]) - 1) : RetryableStatus(outcomes[t][i])

RetriedThenOkResult(t) ==
    /\ http_attempts[t] = Len(outcomes[t])
    /\ Len(outcomes[t]) <= max_retries
    /\ Len(sleeps[t]) = Len(outcomes[t]) - 1
    /\ \A i \in 1..Len(sleeps[t]) : sleeps[t][i] = Pow(DefaultBackoffBase, i - 1)
    /\ (Len(sleeps[t]) >= 1 => sleeps[t][1] >= 0 /\ sleeps[t][1] <= 1)
    /\ result[t] = Returned(Last(outcomes[t]).body)

Min(x, y) == IF x <= y THEN x ELSE y
Caps == 1..MaxCap

\* caller t has just backed off after a 429 / 5xx and is about to retry
BackedOff(t) ==
    /\ pc[t] = "running"
    /\ Len(outcomes[t]) >= 1
    /\ RetryableStatus(Last(outcomes[t]))

C11_DelayWithinCap ==
    \A t \in Threads : \A cap \in Caps :
        BackedOff(t) =>
            /\ Len(sleeps[t]) >= 1
            /\ Last(sleeps[t]) >= 0
            /\ Last(sleeps[t]) <= Min(Pow(DefaultBackoffBase, Len(outcomes[t]) - 1), cap)

\* ----------------------------------------------------------------- C12
\* C12: for a caller about to back off at attempt a, more than one delay
\* is possible for the same attempt and base.
C12_DelayIsJittered ==
    \A t \in Threads :
        pc[t] = "running" /\ attempt[t] < max_retries - 1 =>
            Cardinality(backoff_delays(attempt[t], DefaultBackoffBase)) > 1

\* ----------------------------------------------------------------- C13
\* C13 as stated: an attempt answered with any status 200..299 ends the
\* loop with the payload of that response.
Is2xx(o) == o.kind = "response" /\ o.status >= 200 /\ o.status <= 299

AllOfKind(t, k) == \A i \in 1..Len(outcomes[t]) : outcomes[t][i].kind = k

C14_TimeoutRetriedWithoutSleep ==
    \A t \in Threads :
        /\ (pc[t] \in {"running", "returned", "raised"} /\ AllOfKind(t, "Timeout") =>
              sleeps[t] = <<>>)
        /\ (Finished(t) /\ AllOfKind(t, "Timeout") =>
              /\ http_attempts[t] = max_retries
              /\ result[t] = Raised("APITimeoutError", 0, "-"))

\* ----------------------------------------------------------------- C15
\* C15: every retried transport exception is followed by one sleep of
\* network_error_delay; a finished loop all of whose attempts failed this
\* way made max_retries attempts, slept max_retries - 1 times (not after the
\* last attempt) and raised APINetworkError.
C15_NetworkErrorFixedDelay ==
    \A t \in Threads :
        /\ (pc[t] = "running" /\ AllOfKind(t, "RequestException") =>
              /\ Len(sleeps[t]) = Len(outcomes[t])
              /\ \A i \in 1..Len(sleeps[t]) : sleeps[t][i] = DefaultNetworkErrorDelay)
        /\ (Finished(t) /\ AllOfKind(t, "RequestException") =>
              /\ http_attempts[t] = max_retries
              /\ Len(sleeps[t]) = max_retries - 1
              /\ \A i \in 1..Len(sleeps[t]) : sleeps[t][i] = DefaultNetworkErrorDelay
              /\ result[t] = Raised("APINetworkError", 0, "-"))

\* ------------------------------------------------------ batch vocabulary
\* execute_batch has returned its results dict
BatchReturned == bpc = "returned"
Positions == 1..Len(futures)
Stuck == {i \in Positions : futures[i].st = "stuck"}

\* ----------------------------------------------------------------- C16
\* C16: execute_batch raises only when the pool refuses the submission
\* (never because an item's function raised); in the returned mapping an
\* item whose function raised has the failure record with its message, and
\* an item whose function returned has exactly the returned value.
C16_FailuresAreIsolated ==
    /\ (bpc = "raised" =>
          executor_shutdown /\ \A i \in Positions : futures[i].st # "raised")
    /\ (BatchReturned =>
          \A i \in Positions :
              /\ (futures[i].st = "raised" =>
                    results[items[i]] = FailureRecord(futures[i].value))
              /\ (futures[i].st = "returned" =>
                    results[items[i]] = Entry(futures[i].value)))

\* ----------------------------------------------------------------- C17
\* C17: the mapping returned by execute_batch has as many entries as the
\* item list has items.
C17_ResultCountEqualsItemCount ==
    BatchReturned => Cardinality(DOMAIN results) = Len(items)

\* ----------------------------------------------------------------- C18
\* C18: when execute_batch returns, every submitted item has its one
\* result; a stuck item has the timeout failure record, and with at most
\* one stuck item every other item has the result of its own function.
C18_StuckItemDoesNotBlockOthers ==
    BatchReturned =>
        \A i \in Positions :
            /\ items[i] \in DOMAIN results
            /\ (i \in Stuck => results[items[i]] = FailureRecord(TimeoutMessage))
            /\ (i \notin Stuck /\ Cardinality(Stuck) <= 1 =>
                  /\ futures[i].st \in {"returned", "raised"}
                  /\ results[items[i]] = future_result(futures[i]))

\* ----------------------------------------------------------------- C19
\* C19: whenever shutdown() or __exit__ has returned, the pool is shut down
\* and the session is closed; the call raises nothing, and a repeated call
\* leaves both as they were.
ShutdownReturns == spc = "waiting" /\ spc' = "idle"

IsCachedCall == cache_calls' = cache_calls + 1
Live(key) == cache_files[key].present /\ now < cache_files[key].expires_at

C20_OneInvocationPerWindow ==
    [][IsCachedCall =>
         IF Live(last_key')
         THEN fn_calls' = fn_calls /\ last_result' = cache_files[last_key'].value
         ELSE fn_calls' = fn_calls + 1]_vars

\* ------------------------------------------------------ cache vocabulary
\* the step is a get() of key last_key'
IsGet == last_op' = "get" /\ now' = now

C22_DamagedEntryIsMiss ==
    [][/\ (IsGet /\ cache_files[last_key'].form \in Damages =>
             /\ last_result' = "None"
             /\ ~cache_files'[last_key'].present)
       /\ (IsCachedCall /\ cache_files[last_key'].form \in Damages \cup {"-"}
             /\ last_result' # "raised" =>
             /\ cache_files'[last_key'].present
             /\ cache_files'[last_key'].form = "ok")]_vars

\* ----------------------------------------------------------------- C23
\* C23: _get_cache_key yields a key for both calls, and the two keys are
\* identical exactly when the calls have the same name and the same set of
\* (argument name, argument value) pairs, in whatever order.
ArgSet(c) == {c.kwargs[i] : i \in 1..Len(c.kwargs)}

C23_KeyIdentifiesNameAndArgs ==
    key_out[1].done =>
        /\ ~key_out[1].raised /\ ~key_out[2].raised
        /\ (key_out[1].key = key_out[2].key <=>
              /\ key_calls[1].name = key_calls[2].name
              /\ ArgSet(key_calls[1]) = ArgSet(key_calls[2]))

\* ----------------------------------------------------------------- C24
\* C24: a request that starts with an active correlation id keeps it, one
\* that starts without gets a fresh one; from then on, through every
\* attempt of the request, the id and the id recorded in the request
\* context stay that value; the attempts come one after the other, each
\* numbered one more than the one before.
Starts(t) == pc[t] = "idle" /\ pc'[t] = "running"

C24_OneCorrelationIdPerRequest ==
    [][\A t \in Threads :
         /\ (Starts(t) =>
               /\ IF correlation_id[t] # 0
                  THEN correlation_id'[t] = correlation_id[t] /\ next_id' = next_id
                  ELSE correlation_id'[t] = next_id /\ next_id' = next_id + 1
               /\ correlation_id'[t] # 0
               /\ current_context'[t].correlation_id = correlation_id'[t])
         /\ (pc[t] = "running" =>
               /\ correlation_id'[t] = correlation_id[t]
               /\ current_context'[t].correlation_id = correlation_id[t]
               /\ http_attempts'[t] \in {http_attempts[t], http_attempts[t] + 1}
               /\ (http_attempts'[t] = http_attempts[t] + 1 =>
                     /\ Len(outcomes'[t]) = Len(outcomes[t]) + 1
                     /\ current_context'[t].attempt = http_attempts'[t]))]_vars

\* the second request of a caller (the first one failed), two attempts
\* made, still under the id generated for the first request
C24_Witness ==
    /\ pc["t1"] = "running" /\ http_attempts["t1"] = 2
    /\ correlation_id["t1"] = 1 /\ next_id = 2
    /\ current_context["t1"] = [correlation_id |-> 1, attempt |-> 2]
    /\ state = "CLOSED" /\ failure_count = 1

\* ----------------------------------------------------------------- C25
\* C25: a thread inside initialize() never waits for the container's lock
\* while holding it itself, and once initialize() has returned on a
\* container that was not reset since, _initialized is set and the
\* configuration loader is loaded.
InInitialize(t) == cstack[t] # <<>> /\ cstack[t][1] \in {"init_body", "init_after_cfg", "init_after_auth"}

C25_InitializeTerminates ==
    /\ \A t \in Threads :
          InInitialize(t) /\ Top(t) \in LockLabels => c_lock # t
    /\ (c_initialized => c_config_loader)

Probing(t) == pc[t] = "running" /\ admitted_in[t] = "HALF_OPEN"

C27_ProbesAreSerialized ==
    Cardinality({t \in Threads : Probing(t)}) <= 1

\* ----------------------------------------------------------------- C28
\* C28: failure_count and success_count are never both nonzero, whatever
\* the interleaving of calls, completions and reset.
C28_CountersMutuallyExclusive ==
    ~(failure_count > 0 /\ success_count > 0)

\* a probe has succeeded (success_count = 1) while the other caller's
\* probe has failed and is about to be recorded
C28_Witness ==
    /\ state = "HALF_OPEN" /\ success_count = 1 /\ failure_count = 0
    /\ \E t \in Threads : pc[t] = "raised" /\ admitted_in[t] = "HALF_OPEN"

\* ----------------------------------------------------------------- C29
\* C29: while CLOSED a failure adds one to failure_count and opens the
\* breaker exactly when that reaches failure_threshold, a success sets
\* failure_count to zero and keeps it CLOSED, and nothing else opens it:
\* failure_count is the length of the current run of failures, which stays
\* below failure_threshold while CLOSED.
C29_OpensOnlyOnConsecutiveFailures ==
    /\ [](state = "CLOSED" => failure_count < failure_threshold)
    /\ [][state = "CLOSED" =>
            /\ \A t \in Threads :
                 /\ (Fails(t) =>
                       /\ failure_count' = failure_count + 1
                       /\ state' = IF failure_count + 1 >= failure_threshold
                                   THEN "OPEN" ELSE "CLOSED")
                 /\ (Succeeds(t) => failure_count' = 0 /\ state' = "CLOSED")
            /\ (state' = "OPEN" => \E t \in Threads : Fails(t))]_vars

\* CLOSED again at zero after a failure followed by a success, with a
\* threshold of two
C29_Witness ==
    /\ now = 0 /\ state = "CLOSED" /\ failure_threshold = 2
    /\ failure_count = 0 /\ last_failure_time = 0
    /\ pc["t1"] = "idle" /\ result["t1"].kind = "value"

\* ----------------------------------------------------------------- C30
\* the remaining cooldown as the claim computes it
Elapsed == now - last_failure_time
Remaining == IF recovery_timeout - Elapsed > 0 THEN recovery_timeout - Elapsed ELSE 0

\* the step in which call() turns caller t away
Rejects(t) == call(t) /\ pc'[t] = "idle"

\* the part of C30 that is not about rejection: the reported remaining
\* cooldown is max(0, recovery_timeout - elapsed) while OPEN, within
\* [0, recovery_timeout], and 0 when not OPEN
C30_Reported ==
    /\ (state = "OPEN" => get_state.time_until_retry = Remaining)
    /\ get_state.time_until_retry \in 0..recovery_timeout
    /\ (state # "OPEN" => get_state.time_until_retry = 0)

\* C30 as stated: ... and a call is rejected only if the remaining cooldown
\* is greater than zero.
C30_Original ==
    /\ []C30_Reported
    /\ [][\A t \in Threads :
            Rejects(t) => result'[t].status = Remaining /\ Remaining > 0]_vars

\* C30 (amended): ... and a call made while OPEN is rejected exactly when
\* elapsed <= recovery_timeout; the error carries the remaining cooldown,
\* which is zero when elapsed = recovery_timeout.
C30_RemainingCooldown ==
    /\ []C30_Reported
    /\ [][\A t \in Threads :
            /\ (Rejects(t) =>
                  /\ state = "OPEN" /\ Elapsed <= recovery_timeout
                  /\ result'[t].status = Remaining)
            /\ (state = "OPEN" /\ call(t) /\ ~Rejects(t) =>
                  Elapsed > recovery_timeout /\ Remaining = 0)]_vars

\* rejected at the instant the cooldown ends, with zero seconds remaining
C30_Witness ==
    /\ state = "OPEN" /\ recovery_timeout = 1 /\ now - last_failure_time = 1
    /\ result["t1"].error = OpenError /\ result["t1"].status = 0
    /\ pc["t1"] = "idle" /\ get_state.time_until_retry = 0

\* ----------------------------------------------------------------- C31
\* a probe that succeeds closes the breaker when success_threshold is 1
C31_ProbeCloses ==
    \A t \in Threads :
        success_threshold = 1 /\ state = "HALF_OPEN" /\ Succeeds(t) =>
            state' = "CLOSED"

C32_NoLostFailureUpdates ==
    [][/\ \A t \in Threads :
            Fails(t) =>
                /\ failure_count' = failure_count + 1
                /\ (failure_count + 1 >= failure_threshold => state' = "OPEN")
       /\ (failure_count' > failure_count => \E t \in Threads : Fails(t))]_vars

\* three failures recorded at one instant against a threshold of two: the
\* third was in flight on the other worker when the breaker opened
C32_Witness ==
    /\ now = 0 /\ failure_threshold = 2
    /\ state = "OPEN" /\ failure_count = 3
    /\ \A t \in Threads :
          pc[t] = "idle" /\ result[t].kind = "error" /\ result[t].error # OpenError

\* ----------------------------------------------------------------- C33
\* C33: once _make_api_request_with_retry has returned or raised, the
\* current request context of the caller is cleared
\* (get_current_context() is None).
C33_ContextClearedAfterCall ==
    \A t \in Threads : pc[t] # "running" => current_context[t] = NoContext

\* ----------------------------------------------------------------- C34
\* what an ErrorContext shows when it is read: its correlation id and the
\* attempt number inside its request-context snapshot
Shown(ec) ==
    [correlation_id |-> ec.correlation_id,
     request_correlation_id |-> ec.request_context.correlation_id,
     request_attempt |-> snapshot_attempt(ec)]

\* C34: as long as error_ctx holds the same ErrorContext, the correlation
\* id and the request-context snapshot it shows do not change, whatever
\* later attempts do to the live request context.
C34_ErrorContextIsFixed ==
    [][\A t \in Threads :
          error_ctx[t] # NoErrorContext /\ error_ctx'[t] = error_ctx[t] =>
              Shown(error_ctx[t])' = Shown(error_ctx[t])]_vars

\* ----------------------------------------------------------------- C35
\* C35: a call rejected while the breaker is OPEN leaves state,
\* failure_count, success_count and last_failure_time as they were.
C35_RejectionChangesNothing ==
    [][\A t \in Threads : Rejects(t) => state = "OPEN" /\ UNCHANGED breaker]_vars

\* a rejection after the breaker opened at its threshold of two: still two
\* failures, and the cooldown still counts from the failure
C35_Witness ==
    /\ state = "OPEN" /\ failure_threshold = 2 /\ failure_count = 2
    /\ success_count = 0 /\ recovery_timeout = 1
    /\ now = last_failure_time + 1
    /\ pc["t1"] = "idle" /\ invoked["t1"] = 0
    /\ result["t1"] = Raised(OpenError, 0, "-")

\* ----------------------------------------------------------------- C36
\* C36: in every reachable breaker state: while CLOSED, failure_count is
\* below failure_threshold and success_count is 0; success_count is nonzero
\* only while HALF_OPEN; success_count is always below success_threshold.
C36_CounterBounds ==
    /\ failure_threshold >= 1 /\ success_threshold >= 1
    /\ (state = "CLOSED" => failure_count < failure_threshold /\ success_count = 0)
    /\ (success_count # 0 => state = "HALF_OPEN")
    /\ success_count < success_threshold

\* the breaker has just been closed by the second of two successful probes
C36_Witness ==
    /\ state = "CLOSED" /\ success_threshold = 2
    /\ failure_count = 0 /\ success_count = 0
    /\ last_failure_time # NoTime
    /\ pc["t1"] = "idle" /\ admitted_in["t1"] = "HALF_OPEN"
    /\ result["t1"].kind = "value"

\* ----------------------------------------------------------------- C37
\* C37: the success of an operation that was admitted before the breaker
\* became HALF_OPEN (while CLOSED) and completes while it is HALF_OPEN is
\* not counted as a probe success: it neither adds to success_count nor
\* closes the breaker.
C37_OnlyProbesCloseTheBreaker ==
    [][\A t \in Threads :
          Succeeds(t) /\ state = "HALF_OPEN" /\ admitted_in[t] # "HALF_OPEN" =>
              success_count' = success_count /\ state' = "HALF_OPEN"]_vars

\* ----------------------------------------------------------------- C38
\* an attempt that failed in a retryable way: 429, 5xx, timeout or another
\* transport error
RetryableFailure(o) ==
    \/ o.kind \in {"Timeout", "RequestException"}
    \/ o.kind = "response" /\ (o.status = 429 \/ o.status >= 500)

\* the error kind that belongs to one retryable failure
TerminalError(o) ==
    IF o.kind = "Timeout" THEN "APITimeoutError"
    ELSE IF o.kind = "RequestException" THEN "APINetworkError"
    ELSE IF o.status = 429 THEN "APIRateLimitError"
    ELSE "APIServerError"

\* caller t has used up all max_retries attempts on retryable failures
Exhausted(t) ==
    /\ max_retries >= 1
    /\ Len(outcomes[t]) = max_retries
    /\ \A i \in 1..Len(outcomes[t]) : RetryableFailure(outcomes[t][i])

\* C38: a request that used up its attempts on retryable failures raises
\* one error, whose kind is that of the last attempt's failure whatever
\* the earlier attempts were.
C38_TerminalErrorFromLastAttempt ==
    \A t \in Threads :
        Exhausted(t) =>
            /\ pc[t] = "raised"
            /\ result[t].kind = "error"
            /\ result[t].error = TerminalError(Last(outcomes[t]))
            /\ (result[t].error = "APIServerError" =>
                  result[t].status = Last(outcomes[t]).status)

\* three attempts, three different failures, the error of the third
C38_Witness ==
    /\ max_retries = 3 /\ Exhausted("t1")
    /\ outcomes["t1"][1].kind = "response" /\ outcomes["t1"][1].status = 429
    /\ outcomes["t1"][2].kind = "Timeout"
    /\ outcomes["t1"][3].kind = "RequestException"
    /\ result["t1"].error = "APINetworkError"

\* ----------------------------------------------------------------- C40
\* the step in which cached_call(func, name, **kwargs) calls func and func
\* raises
FuncRaises(n, k) == cached_call_raises(n, k)

\* C40 as stated: a cached_call whose function raises lets the exception
\* through, leaves the cache contents unchanged, and the key is still a
\* miss, so the next call with that name and arguments calls the function.
C40_Original ==
    [][\A n \in FuncNames, k \in KwargLists :
          FuncRaises(n, k) =>
              /\ last_result' = "raised"
              /\ cache_files' = cache_files
              /\ ~is_hit(cache_files', get_cache_key(n, k), now')]_vars

\* C40 (amended): a cached_call whose function raises lets the exception
\* through and stores nothing: no cache file is created or rewritten and
\* every lookup answers as before; the only file that can disappear is the
\* expired file of that key, removed by the lookup that preceded the call.
\* The key is still a miss, so the next call calls the function again.
C40_FailedCallStoresNothing ==
    [][\A n \in FuncNames, k \in KwargLists :
          FuncRaises(n, k) =>
              /\ last_result' = "raised"
              /\ fn_calls' = fn_calls + 1
              /\ \A key \in CacheKeys :
                    /\ get_value(cache_files', key, now') = get_value(cache_files, key, now)
                    /\ \/ cache_files'[key] = cache_files[key]
                       \/ /\ key = get_cache_key(n, k)
                          /\ cache_files'[key] = NoFile
                          /\ now >= cache_files[key].expires_at
              /\ ~is_hit(cache_files', get_cache_key(n, k), now')]_vars

\* the function has raised in two calls for the same key, the second time
\* after the key's entry had expired; no file of the key is left
C40_Witness ==
    /\ last_op = "cached_call" /\ last_result = "raised"
    /\ fn_calls >= 2 /\ set_log[last_key].has
    /\ now >= set_log[last_key].expires_at
    /\ ~cache_files[last_key].present

\* ----------------------------------------------------------------- C39
\* the key of the cached traffic call has an unexpired entry
TrafficHit ==
    is_hit(cache_files, get_cache_key("call_traffic_api", TrafficKwargs), now)

\* C39: a call_traffic_api with caching enabled has a cache key to look up
\* (it does not fail while making the key), and when that key has an
\* unexpired entry the call returns the cached value with no HTTP attempt
\* and leaves the Traffic breaker as it was, OPEN or not.
C39_HitBypassesBreaker ==
    [][\A t \in Threads :
          cached_traffic_call(t) =>
              /\ ~(result'[t].kind = "error" /\ result'[t].error = "TypeError")
              /\ (TrafficHit =>
                    /\ result'[t].kind = "value"
                    /\ pc'[t] = "idle" /\ http_attempts'[t] = 0
                    /\ UNCHANGED breaker)]_vars

====
